---- MODULE Spec2Model ----
(***************************************************************************)
(* numerapi.NumerAPI: the client of the Numerai tournament API.            *)
(*                                                                         *)
(* One client instance, its construction, and its four public operations   *)
(* (get_competitions, submission_status, upload_predictions,               *)
(* download_current_dataset), each split into the steps between which      *)
(* another caller of the same instance can be scheduled.  The remote       *)
(* servers, the local filesystem and the garbage collector are the         *)
(* environment: their answers are drawn nondeterministically.              *)
(***************************************************************************)
EXTENDS Naturals, Sequences, FiniteSets

(* ------------------------------ bounds --------------------------------- *)

\* Calls of public operations made on the instance in one behaviour, by
\* one call site and by two interleaving ones.
MaxCalls == 3
MaxConcurrentCalls == 2
\* Chunks the dataset response body can hold.
MaxChunks == 2

(* --------------------------- Python values ----------------------------- *)

\* Python's None where a string is expected.
None == "<None>"
\* self.token = None
NoToken == <<>>

\* Truthiness of an optional string: None and "" are falsy.
Truthy(x) == x # None /\ x # ""

\* Call sites that may use the instance.
Callers == {1, 2}

(* ------------------------------ inputs --------------------------------- *)

CredentialParts == {None, "", "id"}
SecretParts == {None, "", "key"}

\* Verbosity strings, as sequences of characters so that upper() is computed.
VerbosityInputs ==
    { <<"I","n","f","o">>,
      <<"w","a","r","n">>,
      <<"f","o","o">>,
      <<"b","a","s","i","c","_","f","o","r","m","a","t">>,
      <<>> }

RoundNums == {None, "120"}
\* File paths, as <<directory, base name>>.
FilePaths == {<<"data", "preds.csv">>, <<"data", "missing.csv">>}
\* Files open() can open.
ReadableFiles == {<<"data", "preds.csv">>}
\* File names the upload-auth answer stores the upload under.
StoredNames == {"stored.csv"}
DestPaths == {"out"}
\* Identifiers the server assigns; a JSON null comes back as None.
SubmissionIds == {"s1", "s2", None}

\* Final status codes of a response: of the GraphQL endpoint and the upload
\* target, and of the dataset endpoint.  Status 0 stands for no response at
\* all (connection failure, timeout).
HttpStatuses == {200, 500}
DatasetStatuses == {200, 304, 500}
Bodies == {"good", "badshape", "malformed"}

NoResponse == [status |-> 0, body |-> "none", id |-> None]
Responses(ids) ==
    {NoResponse} \cup [status : HttpStatuses, body : Bodies \ {"good"}, id : {None}]
                 \cup [status : HttpStatuses, body : {"good"}, id : ids]

(* --------------------------- str.upper() ------------------------------- *)

LowerCase == <<"a","b","c","d","e","f","g","h","i","j","k","l","m",
               "n","o","p","q","r","s","t","u","v","w","x","y","z">>
UpperCase == <<"A","B","C","D","E","F","G","H","I","J","K","L","M",
               "N","O","P","Q","R","S","T","U","V","W","X","Y","Z">>

UpperChar(c) ==
    IF \E i \in DOMAIN LowerCase : LowerCase[i] = c
    THEN UpperCase[CHOOSE i \in DOMAIN LowerCase : LowerCase[i] = c]
    ELSE c

Upper(s) == [i \in DOMAIN s |-> UpperChar(s[i])]

(* ------------------------ the logging module --------------------------- *)

\* The all-capitals attributes of the logging module that are integers.
LoggingIntAttrs ==
    { <<"C","R","I","T","I","C","A","L">>, <<"F","A","T","A","L">>,
      <<"E","R","R","O","R">>, <<"W","A","R","N","I","N","G">>,
      <<"W","A","R","N">>, <<"I","N","F","O">>, <<"D","E","B","U","G">>,
      <<"N","O","T","S","E","T">> }
\* The all-capitals attributes of the logging module that are not integers.
LoggingOtherAttrs ==
    { <<"B","A","S","I","C","_","F","O","R","M","A","T">>,
      <<"_","S","T","Y","L","E","S">> }

LevelOf(name) ==
    CASE name \in {<<"C","R","I","T","I","C","A","L">>, <<"F","A","T","A","L">>} -> 50
      [] name = <<"E","R","R","O","R">> -> 40
      [] name \in {<<"W","A","R","N","I","N","G">>, <<"W","A","R","N">>} -> 30
      [] name = <<"I","N","F","O">> -> 20
      [] name = <<"D","E","B","U","G">> -> 10
      [] OTHER -> 0

\* getattr(logging, verbosity.upper()) followed by the isinstance test:
\* "ok", or the exception the two lines raise.  getattr without a default
\* raises AttributeError for a name the module does not have.
VerbosityCheck(verbosity) ==
    IF Upper(verbosity) \in LoggingIntAttrs THEN "ok"
    ELSE IF Upper(verbosity) \in LoggingOtherAttrs THEN "ValueError"
    ELSE "AttributeError"

(* ------------------------------- state --------------------------------- *)

VARIABLES
    inst,           \* "none" before __init__, then "live" or "failed"
    args,           \* the arguments __init__ is called with, consumed by it
    ctorErr,        \* the exception __init__ raised, or "none"
    token,          \* self.token
    logLevel,       \* the level handed to logging.basicConfig
    submission_id,  \* self.submission_id
    pc,             \* per caller: the step its current call is at
    op,             \* per caller: the operation of its current or last call
    loc,            \* per caller: the local variables of its current call
    wire,           \* per caller: the HTTP exchanges of its current or last call
    outcome,        \* per caller: how its last call ended
    openH,          \* per caller: handles its calls opened that are still open
    fs,             \* the filesystem: what each path is
    archive,        \* chunks held by the archive file of each destination
    fsAtCall,       \* per caller: the filesystem when its call began
    lastUpload,     \* <<id>> of the create answer of the last upload that
                    \* returned, <<>> while none has
    calls           \* calls begun so far

vars == <<inst, args, ctorErr, token, logLevel, submission_id, pc, op, loc,
          wire, outcome, openH, fs, archive, fsAtCall, lastUpload, calls>>

clientVars == <<inst, args, ctorErr, token, logLevel>>
fsVars == <<fs, archive>>

NoArgs == [public_id |-> None, secret_key |-> None, verbosity |-> <<>>]
NoLoc == [query |-> None, file_path |-> <<>>, filename |-> None,
          create |-> None, dest_path |-> None, unzip |-> FALSE]
NoOutcome == [kind |-> "none", val |-> None]

HandleKinds == {"archive", "zip", "predictions"}
NoHandles == [k \in HandleKinds |-> 0]

\* The paths download_current_dataset touches under a destination:
\* the destination itself, <dest>/<dataset>.zip and <dest>/<dataset>.
Paths == DestPaths \X {"", "zip", "dataset"}

\* The filesystems a call can find: the destination is absent, a directory
\* or a regular file; inside a directory the dataset path may be taken by a
\* regular file.
InitialFilesystems ==
    { f \in [Paths -> {"absent", "dir", "file"}] :
        \A d \in DestPaths :
            /\ f[<<d, "zip">>] = "absent"
            /\ f[<<d, "dataset">>] \in {"absent", "file"}
            /\ f[<<d, "">>] # "dir" => f[<<d, "dataset">>] = "absent" }

Init ==
    /\ inst = "none"
    /\ args \in [public_id : CredentialParts, secret_key : SecretParts,
                 verbosity : VerbosityInputs]
    /\ ctorErr = "none"
    /\ token = NoToken
    /\ logLevel = 0
    /\ submission_id = None
    /\ pc = [t \in Callers |-> "idle"]
    /\ op = [t \in Callers |-> "none"]
    /\ loc = [t \in Callers |-> NoLoc]
    /\ wire = [t \in Callers |-> <<>>]
    /\ outcome = [t \in Callers |-> NoOutcome]
    /\ openH = [t \in Callers |-> NoHandles]
    /\ fs \in InitialFilesystems
    /\ archive = [d \in DestPaths |-> 0]
    /\ fsAtCall = [t \in Callers |-> <<fs, archive>>]
    /\ lastUpload = <<>>
    /\ calls = 0

(* ----------------------------- __init__ -------------------------------- *)

\* Lines 31-37: both parts truthy give the pair, anything else None.
TokenOf(public_id, secret_key) ==
    IF Truthy(public_id) /\ Truthy(secret_key)
    THEN <<public_id, secret_key>>
    ELSE NoToken

Construct ==
    /\ inst = "none"
    /\ token' = TokenOf(args.public_id, args.secret_key)
    /\ LET v == VerbosityCheck(args.verbosity) IN
         IF v = "ok"
         THEN /\ inst' = "live"
              /\ ctorErr' = "none"
              /\ logLevel' = LevelOf(Upper(args.verbosity))
         ELSE /\ inst' = "failed"
              /\ ctorErr' = v
              /\ logLevel' = logLevel
    /\ submission_id' = None
    /\ args' = NoArgs
    /\ UNCHANGED <<pc, op, loc, wire, outcome, openH, fs, archive, fsAtCall,
                   lastUpload, calls>>

(* ------------------------ calls and their ends ------------------------- *)

\* A caller enters a public method of the live instance.
Enter(t, name, locals, first) ==
    /\ inst = "live"
    /\ pc[t] = "idle"
    /\ calls' = calls + 1
    /\ op' = [op EXCEPT ![t] = name]
    /\ pc' = [pc EXCEPT ![t] = first]
    /\ loc' = [loc EXCEPT ![t] = locals]
    /\ wire' = [wire EXCEPT ![t] = <<>>]
    /\ outcome' = [outcome EXCEPT ![t] = NoOutcome]
    /\ fsAtCall' = [fsAtCall EXCEPT ![t] = <<fs, archive>>]

\* The call ends: an exception leaves the method, or it returns a value.
Raise(t, exc) ==
    /\ pc' = [pc EXCEPT ![t] = "idle"]
    /\ loc' = [loc EXCEPT ![t] = NoLoc]
    /\ outcome' = [outcome EXCEPT ![t] = [kind |-> "err", val |-> exc]]

Return(t, val) ==
    /\ pc' = [pc EXCEPT ![t] = "idle"]
    /\ loc' = [loc EXCEPT ![t] = NoLoc]
    /\ outcome' = [outcome EXCEPT ![t] = [kind |-> "ok", val |-> val]]

Goto(t, next, locals) ==
    /\ pc' = [pc EXCEPT ![t] = next]
    /\ loc' = [loc EXCEPT ![t] = locals]
    /\ outcome' = outcome

(* ------------------------------- _call --------------------------------- *)

API_TOURNAMENT_URL == "https://api-tournament.numer.ai"

\* A variant that attaches the header whenever credentials are configured.
AuthorizationHeaderAlways(authorization) ==
    IF token # NoToken
    THEN "Token " \o token[1] \o "$" \o token[2]
    ELSE None

\* Lines 109-114: the Authorization header, or None when it is not set.
AuthorizationHeader(authorization) ==
    IF authorization /\ token # NoToken
    THEN "Token " \o token[1] \o "$" \o token[2]
    ELSE None

\* Line 115: the POST as it goes out, with the status that came back.
Post(query, variables, authorization, resp) ==
    [method |-> "POST", url |-> API_TOURNAMENT_URL, query |-> query,
     variables |-> variables, auth |-> AuthorizationHeader(authorization),
     status |-> resp.status]

\* Lines 115-116: requests.post raises when no response arrives, r.json()
\* raises on a body that is not JSON; the status code is not looked at.
CallResult(resp) ==
    IF resp.status = 0 THEN "ConnectionError"
    ELSE IF resp.body = "malformed" THEN "ValueError"
    ELSE "json"

(* -------------------------- get_competitions --------------------------- *)

RoundsQuery(round_num) ==
    IF round_num = None THEN "rounds" ELSE "rounds(number: " \o round_num \o ")"

GetCompetitionsBegin(t) ==
    /\ \E round_num \in RoundNums :
         Enter(t, "get_competitions", [NoLoc EXCEPT !.query = RoundsQuery(round_num)],
               "gc_call")
    /\ UNCHANGED <<clientVars, submission_id, openH, fsVars, lastUpload>>

GetCompetitionsCall(t) ==
    /\ pc[t] = "gc_call"
    /\ \E resp \in Responses({None}) :
         /\ wire' = [wire EXCEPT ![t] =
                       Append(@, Post(loc[t].query, None, FALSE, resp))]
         /\ IF CallResult(resp) = "json"
            THEN Return(t, "result")
            ELSE Raise(t, CallResult(resp))
    /\ UNCHANGED <<clientVars, submission_id, op, openH, fsVars, fsAtCall,
                   lastUpload, calls>>

(* -------------------------- submission_status -------------------------- *)

\* Lines 146-147.
SubmissionStatusBegin(t) ==
    /\ Enter(t, "submission_status", NoLoc, "st_check")
    /\ UNCHANGED <<clientVars, submission_id, openH, fsVars, lastUpload>>

\* A variant without the test of lines 146-147.
SubmissionStatusCheckUnguarded(t) ==
    /\ pc[t] = "st_check"
    /\ Goto(t, "st_call", loc[t])
    /\ UNCHANGED <<clientVars, submission_id, op, wire, openH, fsVars,
                   fsAtCall, lastUpload, calls>>

SubmissionStatusCheck(t) ==
    /\ pc[t] = "st_check"
    /\ IF submission_id = None
       THEN Raise(t, "ValueError")
       ELSE Goto(t, "st_call", loc[t])
    /\ UNCHANGED <<clientVars, submission_id, op, wire, openH, fsVars,
                   fsAtCall, lastUpload, calls>>

\* Lines 165-173: the stored identifier is the query variable; the first
\* record of the answer is flattened and returned.
SubmissionStatusCall(t) ==
    /\ pc[t] = "st_call"
    /\ \E resp \in Responses({None}) :
         /\ wire' = [wire EXCEPT ![t] =
                       Append(@, Post("submissions", submission_id, TRUE, resp))]
         /\ IF CallResult(resp) # "json" THEN Raise(t, CallResult(resp))
            ELSE IF resp.body = "badshape" THEN Raise(t, "KeyError")
            ELSE Return(t, "status")
    /\ UNCHANGED <<clientVars, submission_id, op, openH, fsVars, fsAtCall,
                   lastUpload, calls>>

(* -------------------------- upload_predictions ------------------------- *)

\* os.path.basename
Basename(file_path) == file_path[2]

SignedUrl == "https://upload.example/signed"

UploadBegin(t) ==
    /\ \E file_path \in FilePaths :
         Enter(t, "upload_predictions", [NoLoc EXCEPT !.file_path = file_path],
               "up_auth")
    /\ UNCHANGED <<clientVars, submission_id, openH, fsVars, lastUpload>>

\* Lines 188-190.
UploadAuth(t) ==
    /\ pc[t] = "up_auth"
    /\ \E resp \in Responses(StoredNames) :
         /\ wire' = [wire EXCEPT ![t] =
                       Append(@, Post("submission_upload_auth",
                                      Basename(loc[t].file_path), TRUE, resp))]
         /\ IF CallResult(resp) # "json" THEN Raise(t, CallResult(resp))
            ELSE IF resp.body = "badshape" THEN Raise(t, "KeyError")
            ELSE Goto(t, "up_read", [loc[t] EXCEPT !.filename = resp.id])
    /\ UNCHANGED <<clientVars, submission_id, op, openH, fsVars, fsAtCall,
                   lastUpload, calls>>

\* Line 191: open(file_path, 'rb').read().  The file object is never bound
\* to a name and never closed by the method: when it is closed is up to the
\* interpreter (at once under reference counting, at some later collection
\* otherwise).
UploadRead(t) ==
    /\ pc[t] = "up_read"
    /\ IF loc[t].file_path \notin ReadableFiles
       THEN /\ Raise(t, "IOError")
            /\ openH' = openH
       ELSE \E readOk \in BOOLEAN, closedAtOnce \in BOOLEAN :
              /\ openH' = [openH EXCEPT ![t]["predictions"] =
                             IF closedAtOnce THEN @ ELSE @ + 1]
              /\ IF readOk THEN Goto(t, "up_put", loc[t])
                           ELSE Raise(t, "IOError")
    /\ UNCHANGED <<clientVars, submission_id, op, wire, fsVars, fsAtCall,
                   lastUpload, calls>>

\* The interpreter finalizes an unreachable file object.
CollectGarbage(t) ==
    /\ openH[t]["predictions"] > 0
    /\ openH' = [openH EXCEPT ![t]["predictions"] = @ - 1]
    /\ UNCHANGED <<clientVars, submission_id, pc, op, loc, wire, outcome,
                   fsVars, fsAtCall, lastUpload, calls>>

\* Line 192: requests.put raises only when no response arrives; the
\* response it returns is dropped.
UploadPut(t) ==
    /\ pc[t] = "up_put"
    /\ \E status \in {0} \cup HttpStatuses :
         /\ wire' = [wire EXCEPT ![t] =
                       Append(@, [method |-> "PUT", url |-> SignedUrl,
                                  query |-> None, variables |-> None,
                                  auth |-> None, status |-> status])]
         /\ IF status = 0 THEN Raise(t, "ConnectionError")
            ELSE Goto(t, "up_create", loc[t])
    /\ UNCHANGED <<clientVars, submission_id, op, openH, fsVars, fsAtCall,
                   lastUpload, calls>>

\* Lines 201-203, up to the evaluation of create['data'][...]['id'].
UploadCreate(t) ==
    /\ pc[t] = "up_create"
    /\ \E resp \in Responses(SubmissionIds) :
         /\ wire' = [wire EXCEPT ![t] =
                       Append(@, Post("create_submission", loc[t].filename,
                                      TRUE, resp))]
         /\ IF CallResult(resp) # "json" THEN Raise(t, CallResult(resp))
            ELSE IF resp.body = "badshape" THEN Raise(t, "KeyError")
            ELSE Goto(t, "up_store", [loc[t] EXCEPT !.create = resp.id])
    /\ UNCHANGED <<clientVars, submission_id, op, openH, fsVars, fsAtCall,
                   lastUpload, calls>>

\* A variant that stores the upload's file name, not the identifier.
UploadStoreFilename(t) ==
    /\ pc[t] = "up_store"
    /\ submission_id' = loc[t].filename
    /\ Goto(t, "up_return", loc[t])
    /\ UNCHANGED <<clientVars, op, wire, openH, fsVars, fsAtCall, lastUpload,
                   calls>>

\* Line 203: the assignment to self.submission_id.
UploadStore(t) ==
    /\ pc[t] = "up_store"
    /\ submission_id' = loc[t].create
    /\ Goto(t, "up_return", loc[t])
    /\ UNCHANGED <<clientVars, op, wire, openH, fsVars, fsAtCall, lastUpload,
                   calls>>

\* Line 204: return self.submission_id, read again from the instance.
UploadReturn(t) ==
    /\ pc[t] = "up_return"
    /\ Return(t, submission_id)
    /\ lastUpload' = <<loc[t].create>>
    /\ UNCHANGED <<clientVars, submission_id, op, wire, openH, fsVars,
                   fsAtCall, calls>>

(* ----------------------- download_current_dataset ---------------------- *)

DatasetUrl == "https://api.numer.ai/competitions/current/dataset"

\* Bytes iter_content hands over at a time.
ChunkSize == 1024

\* A variant of line 86 left out: no status raises.
RaiseForStatusOmitted(status) == FALSE

\* requests' Response.raise_for_status raises HTTPError for the client and
\* server error codes, 400 to 599, and for no other status.
RaiseForStatus(status) == status \in 400..599

DownloadBegin(t) ==
    /\ \E dest_path \in DestPaths, unzip \in BOOLEAN :
         Enter(t, "download_current_dataset",
               [NoLoc EXCEPT !.dest_path = dest_path, !.unzip = unzip], "dl_get")
    /\ UNCHANGED <<clientVars, submission_id, openH, fsVars, lastUpload>>

\* Lines 84-86.
DownloadGet(t) ==
    /\ pc[t] = "dl_get"
    /\ \E status \in {0} \cup DatasetStatuses :
         /\ wire' = [wire EXCEPT ![t] =
                       Append(@, [method |-> "GET", url |-> DatasetUrl,
                                  query |-> None, variables |-> None,
                                  auth |-> None, status |-> status])]
         /\ IF status = 0 THEN Raise(t, "ConnectionError")
            ELSE IF RaiseForStatus(status) THEN Raise(t, "HTTPError")
            ELSE Goto(t, "dl_mkdir", loc[t])
    /\ UNCHANGED <<clientVars, submission_id, op, openH, fsVars, fsAtCall,
                   lastUpload, calls>>

\* os.makedirs(path): the errno it fails with, or "ok".  Something at the
\* path, a directory or not, is EEXIST; a regular file on the way to it is
\* ENOTDIR; `denied` stands for every other failure (EACCES, ENOSPC, ...).
Makedirs(path, denied) ==
    IF fs[path] # "absent" THEN "EEXIST"
    ELSE IF path[2] # "" /\ fs[<<path[1], "">>] = "file" THEN "ENOTDIR"
    ELSE IF denied THEN "EACCES"
    ELSE "ok"

\* The try/except around os.makedirs (lines 57-61 and 89-93): "pass" when
\* the method goes on, "raise" when the error leaves it.
MakedirsGuard(errno) == IF errno \in {"ok", "EEXIST"} THEN "pass" ELSE "raise"

\* Lines 89-93.
DownloadMakedirs(t) ==
    /\ pc[t] = "dl_mkdir"
    /\ \E denied \in BOOLEAN :
         LET path == <<loc[t].dest_path, "">>
             errno == Makedirs(path, denied) IN
           /\ fs' = IF errno = "ok" THEN [fs EXCEPT ![path] = "dir"] ELSE fs
           /\ IF MakedirsGuard(errno) = "pass"
              THEN Goto(t, "dl_open", loc[t])
              ELSE Raise(t, "OSError")
    /\ UNCHANGED <<clientVars, submission_id, op, wire, openH, archive,
                   fsAtCall, lastUpload, calls>>

\* Line 96: open(dataset_path, "wb") creates or truncates the archive.
DownloadOpen(t) ==
    /\ pc[t] = "dl_open"
    /\ LET d == loc[t].dest_path IN
       \E denied \in BOOLEAN :
         IF fs[<<d, "">>] = "dir" /\ fs[<<d, "zip">>] # "dir" /\ ~denied
         THEN /\ fs' = [fs EXCEPT ![<<d, "zip">>] = "file"]
              /\ archive' = [archive EXCEPT ![d] = 0]
              /\ openH' = [openH EXCEPT ![t]["archive"] = @ + 1]
              /\ Goto(t, "dl_write", loc[t])
         ELSE /\ Raise(t, "IOError")
              /\ UNCHANGED <<fs, archive, openH>>
    /\ UNCHANGED <<clientVars, submission_id, op, wire, fsAtCall, lastUpload,
                   calls>>

\* Lines 97-98: one more chunk arrives and is written.
DownloadWriteChunk(t) ==
    /\ pc[t] = "dl_write"
    /\ archive[loc[t].dest_path] < MaxChunks
    /\ archive' = [archive EXCEPT ![loc[t].dest_path] = @ + 1]
    /\ UNCHANGED <<clientVars, submission_id, pc, op, loc, wire, outcome,
                   openH, fs, fsAtCall, lastUpload, calls>>

\* Lines 96-98: the stream or the write fails; the with statement closes.
DownloadWriteFail(t) ==
    /\ pc[t] = "dl_write"
    /\ openH' = [openH EXCEPT ![t]["archive"] = @ - 1]
    /\ Raise(t, "IOError")
    /\ UNCHANGED <<clientVars, submission_id, op, wire, fsVars, fsAtCall,
                   lastUpload, calls>>

\* Lines 96-104: the body ends; the with statement closes the archive.
DownloadWriteEnd(t) ==
    /\ pc[t] = "dl_write"
    /\ openH' = [openH EXCEPT ![t]["archive"] = @ - 1]
    /\ IF loc[t].unzip THEN Goto(t, "uz_mkdir", loc[t]) ELSE Return(t, "True")
    /\ UNCHANGED <<clientVars, submission_id, op, wire, fsVars, fsAtCall,
                   lastUpload, calls>>

(* ----------------------------- _unzip_file ----------------------------- *)

\* Lines 57-61.
UnzipMakedirs(t) ==
    /\ pc[t] = "uz_mkdir"
    /\ \E denied \in BOOLEAN :
         LET path == <<loc[t].dest_path, "dataset">>
             errno == Makedirs(path, denied) IN
           /\ fs' = IF errno = "ok" THEN [fs EXCEPT ![path] = "dir"] ELSE fs
           /\ IF MakedirsGuard(errno) = "pass"
              THEN Goto(t, "uz_open", loc[t])
              ELSE Raise(t, "OSError")
    /\ UNCHANGED <<clientVars, submission_id, op, wire, openH, archive,
                   fsAtCall, lastUpload, calls>>

\* Line 64: zipfile.ZipFile(src_path, "r") raises on what is no zip archive
\* (an empty file never is one) and leaves nothing open when it does.
UnzipOpen(t) ==
    /\ pc[t] = "uz_open"
    /\ \E valid \in BOOLEAN :
         IF valid /\ archive[loc[t].dest_path] > 0
                  /\ fs[<<loc[t].dest_path, "zip">>] = "file"
         THEN /\ openH' = [openH EXCEPT ![t]["zip"] = @ + 1]
              /\ Goto(t, "uz_extract", loc[t])
         ELSE /\ Raise(t, "BadZipFile")
              /\ openH' = openH
    /\ UNCHANGED <<clientVars, submission_id, op, wire, fsVars, fsAtCall,
                   lastUpload, calls>>

\* Lines 64-67 and 104: extractall writes each member under unzip_path, so
\* an archive without members writes nothing; the with statement closes.
UnzipExtract(t) ==
    /\ pc[t] = "uz_extract"
    /\ openH' = [openH EXCEPT ![t]["zip"] = @ - 1]
    /\ \E members \in BOOLEAN, writeOk \in BOOLEAN :
         IF ~members \/ (fs[<<loc[t].dest_path, "dataset">>] = "dir" /\ writeOk)
         THEN Return(t, "True")
         ELSE Raise(t, "OSError")
    /\ UNCHANGED <<clientVars, submission_id, op, wire, fsVars, fsAtCall,
                   lastUpload, calls>>

(* --------------------------- specifications ---------------------------- *)

\* A caller enters a method.
Begin(t) ==
    \/ GetCompetitionsBegin(t)
    \/ SubmissionStatusBegin(t)
    \/ UploadBegin(t)
    \/ DownloadBegin(t)

\* A call in progress, or the garbage collector, takes a step.
Continue(t) ==
    \/ GetCompetitionsCall(t)
    \/ SubmissionStatusCheck(t)
    \/ SubmissionStatusCall(t)
    \/ UploadAuth(t)
    \/ UploadRead(t)
    \/ UploadPut(t)
    \/ UploadCreate(t)
    \/ UploadStore(t)
    \/ UploadReturn(t)
    \/ CollectGarbage(t)
    \/ DownloadGet(t)
    \/ DownloadMakedirs(t)
    \/ DownloadOpen(t)
    \/ DownloadWriteChunk(t)
    \/ DownloadWriteFail(t)
    \/ DownloadWriteEnd(t)
    \/ UnzipMakedirs(t)
    \/ UnzipOpen(t)
    \/ UnzipExtract(t)

\* One call site: the calls on the instance follow one another.
Next ==
    \/ Construct
    \/ calls < MaxCalls /\ Begin(1)
    \/ Continue(1)

Spec == Init /\ [][Next]_vars

\* Two call sites share the instance and interleave between steps.
NextConcurrent ==
    \/ Construct
    \/ calls < MaxConcurrentCalls /\ \E t \in Callers : Begin(t)
    \/ \E t \in Callers : Continue(t)

SpecConcurrent == Init /\ [][NextConcurrent]_vars

(* ------------------------------ properties ----------------------------- *)

\* The success class of HTTP status codes.
Is2xx(status) == status \in 200..299

Ended(t) == pc[t] = "idle" /\ outcome[t].kind # "none"
Failed(t) == pc[t] = "idle" /\ outcome[t].kind = "err"
\* The identifier the last upload that returned got created, None before.
LastCreated == IF lastUpload = <<>> THEN None ELSE lastUpload[1]

\* C1: while no upload_predictions call has returned, submission_status()
\* ends in ValueError at its first test, having sent no request and having
\* changed neither the client nor the filesystem nor any handle.
C1_MissingState ==
    [][\A t \in Callers :
         /\ (pc[t] = "idle" /\ pc'[t] = "st_check")
              => /\ wire'[t] = <<>>
                 /\ UNCHANGED <<clientVars, submission_id, fsVars, openH>>
         /\ (pc[t] = "st_check" /\ pc'[t] # "st_check" /\ lastUpload = <<>>)
              => /\ pc'[t] = "idle"
                 /\ outcome'[t] = [kind |-> "err", val |-> "ValueError"]
                 /\ wire'[t] = <<>>
                 /\ UNCHANGED <<clientVars, submission_id, fsVars, openH,
                                lastUpload>>]_vars

C1_Witness ==
    /\ inst = "live"
    /\ lastUpload = <<>>
    /\ op[1] = "submission_status"
    /\ outcome[1] = [kind |-> "err", val |-> "ValueError"]
    /\ wire[1] = <<>>

\* C2: between calls the stored identifier is the one the create-submission
\* answer of the last upload that returned gave (None before any), whatever
\* calls failed or succeeded since; and the request submission_status sends
\* carries exactly that identifier as its variable.
C2_StoredIdentifier ==
    /\ (\A t \in Callers : pc[t] = "idle") => submission_id = LastCreated
    /\ \A t \in Callers :
         (op[t] = "submission_status" /\ wire[t] # <<>>)
           => /\ Len(wire[t]) = 1
              /\ wire[t][1].query = "submissions"
              /\ wire[t][1].variables = LastCreated
              /\ wire[t][1].variables # None

\* An upload that returned "s1", then an upload that got as far as the
\* create-submission request and failed: "s1" is still stored.
C2_Witness ==
    /\ lastUpload = <<"s1">>
    /\ op[1] = "upload_predictions"
    /\ Failed(1)
    /\ Len(wire[1]) = 3
    /\ submission_id = "s1"

\* C3: the exchanges of an upload are the upload-auth query, the PUT and the
\* create-submission mutation, in that order; the PUT is reached only with
\* the file read; and an exchange that fails (no response, or a non-2xx
\* response to the PUT) is the call's last one and the call ends in an error.
C3_AbortOnFailure ==
    \A t \in Callers :
      op[t] = "upload_predictions" =>
        /\ Len(wire[t]) <= 3
        /\ \A i \in DOMAIN wire[t] :
             /\ i = 1 => wire[t][i].query = "submission_upload_auth"
             /\ i = 2 => wire[t][i].method = "PUT"
             /\ i = 3 => wire[t][i].query = "create_submission"
             /\ (\/ wire[t][i].status = 0
                 \/ wire[t][i].method = "PUT" /\ ~Is2xx(wire[t][i].status))
                  => (i = Len(wire[t]) /\ Failed(t))
        /\ pc[t] \in {"up_put", "up_create", "up_store", "up_return"}
             => loc[t].file_path \in ReadableFiles

\* C4: a GraphQL request answered with a non-2xx status ends the call in an
\* error; no call returns a result after such an answer.
C4_Non2xxIsError ==
    \A t \in Callers :
      \A i \in DOMAIN wire[t] :
        (wire[t][i].method = "POST" /\ wire[t][i].status # 0
                                    /\ ~Is2xx(wire[t][i].status))
          => Failed(t)

\* The operations that ask _call for authorization.
AuthorizedOps == {"submission_status", "upload_predictions"}

\* C5: __init__ leaves a full credential pair exactly when both parts were
\* given (not None, not empty) and no credentials otherwise, and the pair
\* never changes afterwards; a GraphQL request carries
\* 'Token <public_id>$<secret_key>' exactly when its operation asks for
\* authorization and the client holds a pair; get_competitions, the PUT and
\* the dataset GET never carry the header.
C5_AuthorizationHeader ==
    /\ [][/\ (inst = "none" /\ inst' # "none")
               => token' = IF /\ args.public_id \notin {None, ""}
                              /\ args.secret_key \notin {None, ""}
                           THEN <<args.public_id, args.secret_key>>
                           ELSE NoToken
          /\ inst # "none" => token' = token]_vars
    /\ [](\A t \in Callers :
            \A i \in DOMAIN wire[t] :
              wire[t][i].auth =
                IF /\ wire[t][i].method = "POST"
                   /\ op[t] \in AuthorizedOps
                   /\ token # NoToken
                THEN "Token " \o token[1] \o "$" \o token[2]
                ELSE None)

\* A whole upload on a client with credentials: both GraphQL requests carry
\* the header, the PUT does not.
C5_Witness ==
    /\ token = <<"id", "key">>
    /\ op[1] = "upload_predictions"
    /\ Len(wire[1]) = 3
    /\ wire[1][1].auth = "Token id$key"
    /\ wire[1][2].auth = None
    /\ wire[1][3].auth = "Token id$key"

\* The severity names, which verbosity may spell in any letter case.
SeverityNames ==
    { <<"D","E","B","U","G">>, <<"I","N","F","O">>,
      <<"W","A","R","N","I","N","G">>, <<"E","R","R","O","R">>,
      <<"C","R","I","T","I","C","A","L">> }

\* C6: __init__ with a verbosity that is no severity name raises ValueError
\* and produces no instance; with a severity name it produces one.
C6_InvalidVerbosity ==
    [][(inst = "none" /\ inst' # "none")
         => IF Upper(args.verbosity) \in SeverityNames
            THEN inst' = "live" /\ ctorErr' = "none"
            ELSE inst' = "failed" /\ ctorErr' = "ValueError"]_vars

\* C7: when a call has returned or raised, no handle its caller's calls
\* opened is still open.
C7_HandlesReleased ==
    \A t \in Callers : pc[t] = "idle" => openH[t] = NoHandles

\* The statuses the HTTP layer's own check treats as errors.
ErrorStatus(status) == status \in 400..599

C9_DirectoryEnsured ==
    \A t \in Callers :
      /\ pc[t] \in {"dl_open", "dl_write"}
           => fs[<<loc[t].dest_path, "">>] = "dir"
      /\ pc[t] \in {"uz_open", "uz_extract"}
           => fs[<<loc[t].dest_path, "dataset">>] = "dir"

\* C10: an upload_predictions call that returns, returns the identifier its
\* own create-submission answer gave.
C10_ReturnsOwnIdentifier ==
    [][\A t \in Callers :
         (pc[t] = "up_return" /\ pc'[t] = "idle")
           => outcome'[t] = [kind |-> "ok", val |-> loc[t].create]]_vars

====
